---- MODULE Spec2Model ----
(***************************************************************************)
(* A model of switchbot/__init__.py: the Switchbot device handle, its      *)
(* connect / status refresh / write / disconnect cycle with bounded        *)
(* retries, the command encoder, the password digest and the notification  *)
(* delegate.                                                               *)
(*                                                                         *)
(* Conventions.  A Python optional is a sequence of length at most one:    *)
(* None is <<>> and a value v is <<v>>.  A Python str of hexadecimal       *)
(* digits is a sequence of one-character strings, a bytes object is a      *)
(* sequence of integers in 0..255.  Time is counted in ticks of            *)
(* 1/TicksPerSecond seconds.                                               *)
(***************************************************************************)
EXTENDS Integers, Sequences, FiniteSets, TLC

(***************************************************************************)
(* Bounds of the model.                                                    *)
(***************************************************************************)
\* The largest retry_count a Device is constructed with.
MaxRetry == 2
\* The number of public operations (turn_on, turn_off, press) one run issues.
MaxCalls == 2
\* Clock ticks per second; DEFAULT_RETRY_TIMEOUT (.2 s) is one fifth of it.
TicksPerSecond == 5
\* The clock reading, in seconds, when the Device is constructed.
StartSeconds == 4000

None == <<>>
Some(v) == <<v>>

(***************************************************************************)
(* Module constants, lines 9-29.                                           *)
(***************************************************************************)
DEFAULT_RETRY_COUNT == 3
\* .2 seconds, in ticks
DEFAULT_RETRY_TIMEOUT == TicksPerSecond \div 5

PRESS_KEY == <<"5", "7", "0", "1", "0", "0">>
ON_KEY == <<"5", "7", "0", "1", "0", "1">>
OFF_KEY == <<"5", "7", "0", "1", "0", "2">>

KEY_PREFIX == <<"5", "7", "0", "1">>
KEY_PASSWORD_PREFIX == <<"5", "7", "1", "1">>
INFO_PREFIX == <<"5", "7", "1", "2">>

ON_KEY_SUFFIX == <<"0", "1">>
OFF_KEY_SUFFIX == <<"0", "2">>
PRESS_KEY_SUFFIX == <<"0", "0">>

\* 3600.0 seconds and 3.0 seconds, in ticks
BATTERY_CHECK_TIMEOUT_SECONDS == 3600 * TicksPerSecond
BLE_NOTIFICATION_WAIT_TIME_SECONDS == 3 * TicksPerSecond

(***************************************************************************)
(* binascii: crc32, '%x' formatting and a2b_hex, as the library computes   *)
(* them.                                                                   *)
(***************************************************************************)
HexChars == <<"0", "1", "2", "3", "4", "5", "6", "7",
              "8", "9", "a", "b", "c", "d", "e", "f">>

HexVal(c) == (CHOOSE i \in 1..16 : HexChars[i] = c) - 1

IsHexDigit(c) == \E i \in 1..16 : HexChars[i] = c

\* bitwise exclusive or of two naturals below 2^w
RECURSIVE XorN(_, _, _)
XorN(a, b, w) ==
    IF w = 0 THEN 0
    ELSE (((a % 2) + (b % 2)) % 2) + 2 * XorN(a \div 2, b \div 2, w - 1)

\* a 32-bit word is the pair <<high 16 bits, low 16 bits>>
Xor32(u, v) == <<XorN(u[1], v[1], 16), XorN(u[2], v[2], 16)>>

ShiftRight(u) == <<u[1] \div 2, (u[2] \div 2) + 32768 * (u[1] % 2)>>

\* the reflected CRC-32 polynomial 0xEDB88320
CrcPoly == <<60856, 33568>>

AllOnes == <<65535, 65535>>

RECURSIVE CrcShift(_, _)
CrcShift(crc, n) ==
    IF n = 0 THEN crc
    ELSE CrcShift(IF crc[2] % 2 = 1 THEN Xor32(ShiftRight(crc), CrcPoly)
                  ELSE ShiftRight(crc), n - 1)

RECURSIVE CrcUpdate(_, _)
CrcUpdate(crc, bytes) ==
    IF bytes = <<>> THEN crc
    ELSE CrcUpdate(CrcShift(Xor32(crc, <<0, Head(bytes)>>), 8), Tail(bytes))

\* binascii.crc32(data): an unsigned 32-bit word
crc32(bytes) == Xor32(CrcUpdate(AllOnes, bytes), AllOnes)

\* value & 0xffffffff
Mask32(word) == <<word[1] % 65536, word[2] % 65536>>

\* the k-th hexadecimal digit of a word, k = 1 the least significant
Nibble(word, k) ==
    IF k <= 4 THEN (word[2] \div (16 ^ (k - 1))) % 16
    ELSE (word[1] \div (16 ^ (k - 5))) % 16

\* the number of hexadecimal digits '%x' prints: no leading zeros, "0" for zero
HexWidth(word) ==
    LET used == {k \in 1..8 : Nibble(word, k) # 0}
    IN  IF used = {} THEN 1 ELSE CHOOSE k \in used : \A j \in used : j <= k

\* '%x' % word
FormatHex(word) ==
    LET w == HexWidth(word)
    IN  [i \in 1..w |-> HexChars[Nibble(word, w + 1 - i) + 1]]

\* str.encode('ascii') on the characters the passwords of the model use
AsciiCode(c) ==
    CASE c = "a" -> 97
      [] c = "b" -> 98
      [] c = "c" -> 99
      [] c = "o" -> 111

encode_ascii(s) == [i \in 1..Len(s) |-> AsciiCode(s[i])]

\* binascii.a2b_hex raises binascii.Error on an odd number of digits
A2bHexRaises(hex) == Len(hex) % 2 = 1 \/ \E i \in 1..Len(hex) : ~IsHexDigit(hex[i])

a2b_hex(hex) ==
    [i \in 1..(Len(hex) \div 2) |-> 16 * HexVal(hex[2 * i - 1]) + HexVal(hex[2 * i])]

(***************************************************************************)
(* Switchbot._passwordcrc, lines 83-87.  password is an optional str.      *)
(***************************************************************************)
passwordcrc(password) ==
    IF password = None \/ password = Some(<<>>)
    THEN <<>>
    ELSE FormatHex(Mask32(crc32(encode_ascii(password[1]))))

\* the passwords a Device of the model is constructed with:
\* None, "", "a" (crc e8b7be43), "c" (crc 6b9df6f)
Passwords == {None, Some(<<>>), Some(<<"a">>), Some(<<"c">>)}

\* the notification payloads the device sends: at least 3 bytes each
Payloads == {<<0, 75, 30>>, <<1, 100, 47>>}

\* how long the device stays idle between two public operations
IdleDelays == {3599 * TicksPerSecond, 3600 * TicksPerSecond}

\* how long a notification that arrives takes to arrive
NotifyDelays == {TicksPerSecond}

\* the clock reading after which no further idle time passes
Horizon == (StartSeconds + 3600 + 100) * TicksPerSecond

VARIABLES
    \* the fields of the Switchbot object
    device,             \* _device: None or the open bluepy Peripheral
    retry_count,        \* _retry_count
    password_encoded,   \* _password_encoded: the str _passwordcrc returned
    lastBattRefresh,    \* _lastBattRefresh, in ticks
    battery_percent,    \* _battery_percent
    firmware_version,   \* the firmware version cached on the object, if any
    \* the call in progress
    pc,                 \* where the calling thread is
    key,                \* _sendcommand's key: the operation in progress or last finished
    retry,              \* _sendcommand's retry
    command,            \* _sendcommand's command
    send_success,       \* _sendcommand's send_success
    exc,                \* the exception in flight, if any
    result,             \* what the last public operation returned
    raised,             \* what the last public operation raised
    \* the environment
    now,                \* time.time(), in ticks
    calls,              \* public operations issued so far
    \* history of the operation and of its current attempt
    attempts,           \* _sendcommand invocations of this operation
    opened,             \* sessions opened in this operation
    released,           \* sessions released in this operation
    disconnectCalls,    \* _disconnect invocations of this attempt
    everyAttemptFailed, \* each attempt so far ended in a transport error or no ack
    acked,              \* a command write of this operation was acknowledged
    trace,              \* the transport calls of this attempt, in order
    written,            \* the bytes this attempt wrote to the command characteristic
    lastNotification,   \* the payload handleNotification last received
    lastSuccess,        \* when the last status notification was received
    timedOut            \* the last notification wait that returned reported none

object == <<device, retry_count, password_encoded, lastBattRefresh,
            battery_percent, firmware_version>>
frame == <<pc, key, retry, command, send_success, exc, result, raised>>
history == <<attempts, opened, released, disconnectCalls, everyAttemptFailed,
             acked, trace, written, lastNotification, lastSuccess, timedOut>>
vars == <<object, frame, now, calls, history>>

BTLEException == Some("BTLEException")
BinasciiError == Some("binascii.Error")

(***************************************************************************)
(* Switchbot.__init__, lines 37-44.                                        *)
(***************************************************************************)
Init ==
    /\ device = None
    /\ retry_count \in 0..MaxRetry
    /\ \E password \in Passwords : password_encoded = Some(passwordcrc(password))
    /\ lastBattRefresh = 0
    /\ battery_percent = None
    /\ firmware_version = None
    /\ pc = "idle"
    /\ key = <<>>
    /\ retry = 0
    /\ command = <<>>
    /\ send_success = FALSE
    /\ exc = None
    /\ result = None
    /\ raised = None
    /\ now = StartSeconds * TicksPerSecond
    /\ calls = 0
    /\ attempts = 0
    /\ opened = 0
    /\ released = 0
    /\ disconnectCalls = 0
    /\ everyAttemptFailed = TRUE
    /\ acked = FALSE
    /\ trace = <<>>
    /\ written = None
    /\ lastNotification = None
    /\ lastSuccess = None
    /\ timedOut = FALSE

(***************************************************************************)
(* Switchbot._commandkey, lines 89-100.  Line 90 overwrites the parameter  *)
(* before it is compared.                                                  *)
(***************************************************************************)
commandkey(k, encoded) ==
    LET key0 == <<>>
        key_suffix == IF key0 = ON_KEY THEN ON_KEY_SUFFIX
                      ELSE IF key0 = OFF_KEY THEN OFF_KEY_SUFFIX
                      ELSE PRESS_KEY_SUFFIX
    IN  IF encoded # None
        THEN KEY_PASSWORD_PREFIX \o encoded[1] \o key_suffix
        ELSE KEY_PREFIX \o key_suffix

(***************************************************************************)
(* turn_on, turn_off, press, lines 154-164: enter _sendcommand with the    *)
(* configured retry budget.                                                *)
(***************************************************************************)
Call(k) ==
    /\ pc = "idle"
    /\ calls < MaxCalls
    /\ calls' = calls + 1
    /\ key' = k
    /\ retry' = retry_count
    /\ pc' = "sendcommand"
    /\ result' = None
    /\ raised' = None
    /\ exc' = None
    /\ attempts' = 0
    /\ opened' = 0
    /\ released' = 0
    /\ disconnectCalls' = 0
    /\ everyAttemptFailed' = TRUE
    /\ acked' = FALSE
    /\ trace' = <<>>
    /\ written' = None
    /\ UNCHANGED <<object, command, send_success, now, lastNotification, lastSuccess, timedOut>>

turn_on == Call(ON_KEY)

turn_off == Call(OFF_KEY)

press == Call(PRESS_KEY)

\* time passes between two public operations
Elapse ==
    /\ pc = "idle"
    /\ calls \in 1..(MaxCalls - 1)
    /\ \E d \in IdleDelays :
          /\ now + d <= Horizon
          /\ now' = now + d
    /\ UNCHANGED <<object, frame, calls, history>>

(***************************************************************************)
(* Switchbot._sendcommand, lines 133-136: one attempt begins.              *)
(***************************************************************************)
SendcommandEnter ==
    /\ pc = "sendcommand"
    /\ send_success' = FALSE
    /\ command' = commandkey(key, password_encoded)
    /\ exc' = None
    /\ attempts' = attempts + 1
    /\ disconnectCalls' = 0
    /\ trace' = <<>>
    /\ written' = None
    /\ pc' = "connect"
    /\ UNCHANGED <<object, key, retry, result, raised, now, calls, opened, released,
                   everyAttemptFailed, acked, lastNotification, lastSuccess, timedOut>>

\* a try without the finally clause: an exception skips _disconnect
FinallyTarget_Skipped == "decide"

\* lines 137-144: an exception raised in the try body runs the finally clause
FinallyTarget == "disconnect"

(***************************************************************************)
(* Switchbot._connect, lines 46-57, called at line 138.                    *)
(***************************************************************************)
\* line 47 with the test turned around
AlreadyConnected_Inverted(dev) == dev = None

\* line 47 left out: a session is opened whatever _device holds
AlreadyConnected_Ignored(dev) == FALSE

\* line 47: if self._device is not None: return
AlreadyConnected(dev) == dev # None

Connect ==
    /\ pc = "connect"
    /\ IF AlreadyConnected(device)
       THEN /\ pc' = "getBattery"
            /\ UNCHANGED <<device, exc, opened, trace, everyAttemptFailed>>
       ELSE \E ok \in BOOLEAN :
               IF ok
               THEN /\ device' = Some("Peripheral")
                    /\ opened' = opened + 1
                    /\ trace' = Append(trace, "open")
                    /\ pc' = "getBattery"
                    /\ UNCHANGED <<exc, everyAttemptFailed>>
               ELSE /\ device' = None
                    /\ exc' = BTLEException
                    /\ trace' = Append(trace, "open_raised")
                    /\ pc' = FinallyTarget
                    /\ UNCHANGED <<opened, everyAttemptFailed>>
    /\ UNCHANGED <<retry_count, password_encoded, lastBattRefresh, battery_percent,
                   firmware_version, key, retry, command, send_success, result, raised,
                   now, calls, attempts, released, disconnectCalls, acked, written,
                   lastNotification, lastSuccess, timedOut>>

(***************************************************************************)
(* Switchbot._writekey, lines 70-81: the service lookup may raise, then    *)
(* a2b_hex may raise, then the write raises or returns the acknowledgment. *)
(***************************************************************************)
WritekeyOutcomes(k) ==
    IF A2bHexRaises(k)
    THEN {"lookup_raised", "binascii.Error"}
    ELSE {"lookup_raised", "write_raised", "ack", "nack"}

WritekeyRaises(o) ==
    IF o \in {"lookup_raised", "write_raised"} THEN BTLEException
    ELSE IF o = "binascii.Error" THEN BinasciiError
    ELSE None

\* whether hand.write was called with the converted bytes
WritekeyWrote(o) == o \in {"write_raised", "ack", "nack"}

(***************************************************************************)
(* Switchbot._getBatteryPercent_FWVersion, lines 102-115, called at 139.   *)
(***************************************************************************)
\* the comparison of line 104 without the throttle window
Throttled_NoWindow(last, t) == last >= t

\* the comparison of line 104 made strict
Throttled_Strict(last, t) == last + BATTERY_CHECK_TIMEOUT_SECONDS > t

Throttled(last, t) == last + BATTERY_CHECK_TIMEOUT_SECONDS >= t

\* a refresh whose exception is swallowed, so that the command is still written
RefreshAbortTarget_Swallowed == "writekey"

\* line 139 sits in the try body of _sendcommand and catches nothing itself:
\* an exception of the refresh leaves the try body
RefreshAbortTarget == FinallyTarget

\* what the transport call of line 109 adds to the record of the attempt
QueryEvent(o) ==
    CASE o = "lookup_raised" -> "query_lookup_raised"
      [] o = "binascii.Error" -> "query_convert_raised"
      [] o = "write_raised" -> "query_raised"
      [] OTHER -> "query"

\* lines 103-108: the throttle test, then the delegate and the descriptor write
GetBattery ==
    /\ pc = "getBattery"
    /\ IF Throttled(lastBattRefresh, now)
       THEN /\ pc' = "writekey"
            /\ UNCHANGED <<exc, trace>>
       ELSE \E ok \in BOOLEAN :
               IF ok
               THEN /\ trace' = Append(trace, "arm")
                    /\ pc' = "info"
                    /\ UNCHANGED exc
               ELSE /\ trace' = Append(trace, "arm_raised")
                    /\ exc' = BTLEException
                    /\ pc' = RefreshAbortTarget
    /\ UNCHANGED <<object, key, retry, command, send_success, result, raised, now, calls,
                   attempts, opened, released, disconnectCalls, everyAttemptFailed,
                   acked, written, lastNotification, lastSuccess, timedOut>>

\* line 109: the status query through _writekey; its result is dropped
InfoWritekey ==
    /\ pc = "info"
    /\ \E o \in WritekeyOutcomes(INFO_PREFIX \o password_encoded[1]) :
          /\ trace' = Append(trace, QueryEvent(o))
          /\ exc' = WritekeyRaises(o)
          /\ pc' = IF WritekeyRaises(o) = None THEN "wait" ELSE RefreshAbortTarget
          /\ everyAttemptFailed' = (everyAttemptFailed /\ o # "binascii.Error")
    /\ UNCHANGED <<object, key, retry, command, send_success, result, raised, now, calls,
                   attempts, opened, released, disconnectCalls, acked, written,
                   lastNotification, lastSuccess, timedOut>>

\* firmware_version = data[2] / 10.0: a decimal with one fractional digit
Div10(n) == <<n \div 10, n % 10>>

\* SwitchBotSettingsNotificationDelegate.handleNotification, lines 173-179:
\* the value each field of the driver holds afterwards (Python indexes from 0)
\* the battery level read from payload byte 0
HandleBattery_Byte0(data, old) == Some(data[1])

HandleBattery(data, old) == Some(data[2])

HandleFirmware(data, old) ==
    LET fw == Div10(data[3])
    IN  old

\* the refresh time taken whether or not a notification arrived
RefreshStamp_Always(notified, t, last) == t

\* lines 111-113: the refresh time is taken only when a notification arrived
RefreshStamp(notified, t, last) == IF notified THEN t ELSE last

\* lines 111-114: the bounded wait, the delegate's callback, the settle delay
WaitForNotifications ==
    /\ pc = "wait"
    /\ \/ \E d \in NotifyDelays, data \in Payloads :
             /\ battery_percent' = HandleBattery(data, battery_percent)
             /\ firmware_version' = HandleFirmware(data, firmware_version)
             /\ lastNotification' = Some(data)
             /\ lastBattRefresh' = RefreshStamp(TRUE, now + d, lastBattRefresh)
             /\ lastSuccess' = Some(now + d)
             /\ timedOut' = FALSE
             /\ now' = now + d + TicksPerSecond
             /\ trace' = Append(trace, "notified")
             /\ pc' = "writekey"
             /\ UNCHANGED exc
       \/ /\ lastBattRefresh' =
                RefreshStamp(FALSE, now + BLE_NOTIFICATION_WAIT_TIME_SECONDS, lastBattRefresh)
          /\ now' = now + BLE_NOTIFICATION_WAIT_TIME_SECONDS + TicksPerSecond
          /\ trace' = Append(trace, "timeout")
          /\ timedOut' = TRUE
          /\ pc' = "writekey"
          /\ UNCHANGED <<battery_percent, firmware_version, lastNotification,
                         lastSuccess, exc>>
       \/ /\ exc' = BTLEException
          /\ trace' = Append(trace, "wait_raised")
          /\ pc' = RefreshAbortTarget
          /\ UNCHANGED <<battery_percent, firmware_version, lastNotification,
                         lastSuccess, lastBattRefresh, now, timedOut>>
    /\ UNCHANGED <<device, retry_count, password_encoded, key, retry, command,
                   send_success, result, raised, calls, attempts, opened, released,
                   disconnectCalls, everyAttemptFailed, acked, written>>

(***************************************************************************)
(* _sendcommand line 140: send_success = self._writekey(command).          *)
(***************************************************************************)
\* the result of _writekey dropped instead of assigned
SendSucceeded_Dropped(write_result) == FALSE

\* any write that returns counted as a success
SendSucceeded_Always(write_result) == TRUE

SendSucceeded(write_result) == write_result

Writekey ==
    /\ pc = "writekey"
    /\ \E o \in WritekeyOutcomes(command) :
          /\ trace' = Append(trace, IF WritekeyWrote(o) THEN "write" ELSE o)
          /\ written' = IF WritekeyWrote(o) THEN Some(a2b_hex(command)) ELSE None
          /\ exc' = WritekeyRaises(o)
          /\ send_success' = IF WritekeyRaises(o) = None
                             THEN SendSucceeded(o = "ack") ELSE send_success
          /\ acked' = (o = "ack")
          /\ everyAttemptFailed' = (everyAttemptFailed /\ o \notin {"ack", "binascii.Error"})
          /\ pc' = IF WritekeyRaises(o) = None THEN "disconnect" ELSE FinallyTarget
    /\ UNCHANGED <<object, key, retry, command, result, raised, now, calls, attempts,
                   opened, released, disconnectCalls, lastNotification, lastSuccess, timedOut>>

(***************************************************************************)
(* Switchbot._disconnect, lines 59-68, called at line 144.                 *)
(***************************************************************************)
\* _device cleared after the call instead of in a finally clause
DeviceAfterDisconnect_NoFinally(dev, disconnectRaised) ==
    IF disconnectRaised THEN dev ELSE None

\* lines 63-68: what _device holds after disconnect() returned or raised
DeviceAfterDisconnect(dev, disconnectRaised) == None

Disconnect ==
    /\ pc = "disconnect"
    /\ disconnectCalls' = disconnectCalls + 1
    /\ IF device = None
       THEN UNCHANGED <<device, released, trace>>
       ELSE \E disconnectRaised \in BOOLEAN :
               /\ device' = DeviceAfterDisconnect(device, disconnectRaised)
               /\ released' = released + 1
               /\ trace' = Append(trace, IF disconnectRaised THEN "close_raised" ELSE "close")
    /\ pc' = "decide"
    /\ UNCHANGED <<retry_count, password_encoded, lastBattRefresh, battery_percent,
                   firmware_version, key, retry, command, send_success, exc, result,
                   raised, now, calls, attempts, opened, everyAttemptFailed, acked,
                   written, lastNotification, lastSuccess, timedOut>>

(***************************************************************************)
(* _sendcommand, lines 141-152: only BTLEException is caught; then the     *)
(* result is returned, or the retry budget decides.                        *)
(***************************************************************************)
\* the retry budget tested one too early
RetryExhausted_OneEarly(r) == r < 2

RetryExhausted(r) == r < 1

\* the recursive call made with the budget it was given
NextRetry_Same(r) == r

\* line 152: self._sendcommand(key, retry - 1)
NextRetry(r) == r - 1

\* the outermost _sendcommand returns or raises: its locals, and with them the
\* record of its last attempt, are gone
Return ==
    /\ pc' = "idle"
    /\ retry' = 0
    /\ command' = <<>>
    /\ send_success' = FALSE
    /\ exc' = None
    /\ disconnectCalls' = 0
    /\ trace' = <<>>
    /\ written' = None

Decide ==
    /\ pc = "decide"
    /\ IF exc # None /\ exc # BTLEException
       THEN /\ raised' = exc
            /\ Return
            /\ UNCHANGED <<result, now>>
       ELSE IF send_success
       THEN /\ result' = Some(send_success)
            /\ Return
            /\ UNCHANGED <<raised, now>>
       ELSE IF RetryExhausted(retry)
       THEN /\ result' = Some(FALSE)
            /\ Return
            /\ UNCHANGED <<raised, now>>
       ELSE /\ now' = now + DEFAULT_RETRY_TIMEOUT
            /\ retry' = NextRetry(retry)
            /\ pc' = "sendcommand"
            /\ UNCHANGED <<raised, result, command, send_success, exc,
                           disconnectCalls, trace, written>>
    /\ UNCHANGED <<object, key, calls, attempts, opened, released, everyAttemptFailed,
                   acked, lastNotification, lastSuccess, timedOut>>

Next ==
    \/ turn_on
    \/ turn_off
    \/ press
    \/ Elapse
    \/ SendcommandEnter
    \/ Connect
    \/ GetBattery
    \/ InfoWritekey
    \/ WaitForNotifications
    \/ Writekey
    \/ Disconnect
    \/ Decide

Spec == Init /\ [][Next]_vars

\* the steps of the calling thread inside a public operation
Step ==
    \/ SendcommandEnter
    \/ Connect
    \/ GetBattery
    \/ InfoWritekey
    \/ WaitForNotifications
    \/ Writekey
    \/ Disconnect
    \/ Decide

(***************************************************************************)
(* Switchbot._connect, lines 46-57, called on its own by the owner of the  *)
(* object before the first public operation: the session it opens is the   *)
(* one the next _sendcommand finds in _device.  An exception it raises     *)
(* goes to that caller.                                                    *)
(***************************************************************************)
ConnectDirect ==
    /\ pc = "idle"
    /\ calls = 0
    /\ IF AlreadyConnected(device)
       THEN UNCHANGED device
       ELSE \E ok \in BOOLEAN : device' = IF ok THEN Some("Peripheral") ELSE None
    /\ UNCHANGED <<retry_count, password_encoded, lastBattRefresh, battery_percent,
                   firmware_version, frame, now, calls, history>>

NextDirect == Next \/ ConnectDirect

SpecDirect == Init /\ [][NextDirect]_vars

InTrace(e) == \E i \in 1..Len(trace) : trace[i] = e

CountInTrace(E) == Cardinality({i \in 1..Len(trace) : trace[i] \in E})

Returned == pc = "idle" /\ calls > 0

(***************************************************************************)
(* C1.  Retry exhaustion: when every attempt of a public operation failed  *)
(* by a transport error or an unacknowledged write, the operation made     *)
(* exactly retry_count + 1 attempts and returned False; no operation makes *)
(* more attempts than that.                                                *)
(***************************************************************************)
C1_RetryExhaustion ==
    /\ attempts <= retry_count + 1
    /\ (Returned /\ everyAttemptFailed) =>
          /\ attempts = retry_count + 1
          /\ result = Some(FALSE)
          /\ raised = None

C1_Witness ==
    /\ Returned
    /\ everyAttemptFailed
    /\ retry_count = 2
    /\ attempts = 3
    /\ result = Some(FALSE)

(***************************************************************************)
(* C2.  Disconnect-always: _disconnect has not run while the attempt is in *)
(* its try body, has run exactly once when the retry decision is taken,    *)
(* and every session an attempt opened has been released exactly once by   *)
(* then.                                                                   *)
(***************************************************************************)
C2_DisconnectAlways ==
    /\ pc \in {"connect", "getBattery", "info", "wait", "writekey", "disconnect"}
          => disconnectCalls = 0
    /\ pc = "decide" => disconnectCalls = 1
    /\ (pc = "sendcommand" /\ attempts > 0) => disconnectCalls = 1
    /\ released = opened - (IF device # None THEN 1 ELSE 0)
    /\ pc \in {"decide", "idle", "sendcommand"} => released = opened
    /\ pc = "decide" => CountInTrace({"close", "close_raised"}) = CountInTrace({"open"})

C2_Witness ==
    /\ pc = "decide"
    /\ exc = BTLEException
    /\ InTrace("open")
    /\ InTrace("arm_raised")
    /\ disconnectCalls = 1
    /\ released = opened

(***************************************************************************)
(* C3.  Connection slot: _device is None whenever a public operation has   *)
(* returned, between two attempts and before connect; it is non-None only  *)
(* after the attempt's connect succeeded and before its disconnect.        *)
(***************************************************************************)
C3_ConnectionSlot ==
    /\ pc \in {"idle", "sendcommand", "connect", "decide"} => device = None
    /\ device # None =>
          /\ InTrace("open")
          /\ ~InTrace("close")
          /\ ~InTrace("close_raised")

C3_Witness ==
    /\ pc = "decide"
    /\ InTrace("close_raised")
    /\ device = None

\* the suffix the specification assigns to an action
ClaimedSuffix(k) ==
    IF k = ON_KEY THEN ON_KEY_SUFFIX
    ELSE IF k = OFF_KEY THEN OFF_KEY_SUFFIX
    ELSE PRESS_KEY_SUFFIX

(***************************************************************************)
(* C4.  Without a password the bytes written to the command characteristic *)
(* are those of "570100" (press), "570101" (turn_on), "570102" (turn_off): *)
(* the prefix "5701" and the action's suffix.                              *)
(***************************************************************************)
C4_NoPasswordFrame ==
    (password_encoded = Some(<<>>) /\ written # None) =>
        /\ written = Some(a2b_hex(key))
        /\ written = Some(a2b_hex(KEY_PREFIX \o ClaimedSuffix(key)))

(***************************************************************************)
(* C5.  With a non-empty digest D the bytes written are those of           *)
(* "5711" + D + suffix, the suffix selected by the action.                 *)
(***************************************************************************)
C5_PasswordFrame ==
    (password_encoded # Some(<<>>) /\ written # None) =>
        written = Some(a2b_hex(KEY_PASSWORD_PREFIX \o password_encoded[1]
                               \o ClaimedSuffix(key)))

(***************************************************************************)
(* C6.  No failure escapes the public API: a public operation that has     *)
(* ended has returned True or False and raised nothing.                    *)
(***************************************************************************)
C6_NoEscape ==
    Returned => (raised = None /\ result \in {Some(TRUE), Some(FALSE)})

(***************************************************************************)
(* C7.  Throttle: a refresh call made less than 3600 seconds after the     *)
(* last received status notification goes straight on to the command       *)
(* write: no transport call is made and no time passes.                    *)
(***************************************************************************)
C7_Throttle ==
    [][(/\ pc = "getBattery"
        /\ lastSuccess # None
        /\ now - lastSuccess[1] < BATTERY_CHECK_TIMEOUT_SECONDS)
       => (pc' = "writekey" /\ trace' = trace /\ now' = now
           /\ lastBattRefresh' = lastBattRefresh)]_vars

C7_Witness ==
    /\ pc = "writekey"
    /\ calls = 2
    /\ trace = <<"open">>
    /\ lastSuccess # None
    /\ now - lastSuccess[1] < BATTERY_CHECK_TIMEOUT_SECONDS
    /\ now - lastSuccess[1] > TicksPerSecond

(***************************************************************************)
(* C8.  _lastBattRefresh starts at 0, never decreases, and changes only in *)
(* the step in which the notification wait reported a notification, to the *)
(* time of that report.                                                    *)
(***************************************************************************)
C8_RefreshTime ==
    /\ lastBattRefresh = 0
    /\ [][/\ lastBattRefresh' >= lastBattRefresh
          /\ lastBattRefresh' # lastBattRefresh =>
                /\ pc = "wait"
                /\ trace' = Append(trace, "notified")
                /\ lastSuccess' = Some(lastBattRefresh')]_vars

C8_Witness ==
    /\ pc = "writekey"
    /\ trace = <<"open", "arm", "query", "timeout">>
    /\ lastBattRefresh > 0
    /\ lastSuccess = Some(lastBattRefresh)

(***************************************************************************)
(* C9.  Notification decode: after handleNotification ran on a payload,    *)
(* the Device holds payload byte 1 as battery_percent and payload byte 2   *)
(* divided by 10 as firmware_version.                                      *)
(***************************************************************************)
C9_NotificationDecode ==
    lastNotification # None =>
        /\ battery_percent = Some(lastNotification[1][2])
        /\ firmware_version = Some(Div10(lastNotification[1][3]))

(***************************************************************************)
(* C10.  End-to-end success: once a command write is acknowledged the      *)
(* operation only disconnects and returns True, with no further attempt;   *)
(* when that write is the first attempt's, exactly one session was opened  *)
(* and exactly one released.                                               *)
(***************************************************************************)
C10_EndToEnd ==
    /\ acked => pc \in {"disconnect", "decide", "idle"}
    /\ (acked /\ pc = "idle") => (result = Some(TRUE) /\ raised = None)
    /\ (acked /\ attempts = 1 /\ pc \in {"decide", "idle"}) =>
          (opened = 1 /\ released = 1)

C10_Witness ==
    /\ Returned
    /\ key = PRESS_KEY
    /\ password_encoded = Some(<<>>)
    /\ acked
    /\ attempts = 1
    /\ result = Some(TRUE)
    /\ opened = 1
    /\ released = 1

(***************************************************************************)
(* C11.  Acknowledgment failure is a failure: an attempt whose command     *)
(* write returned without an acknowledgment is retried while retries       *)
(* remain and ends the operation with False when none does; an operation   *)
(* returns True only from an attempt whose command write was acknowledged. *)
(***************************************************************************)
NackedAttempt == pc = "decide" /\ InTrace("write") /\ exc = None /\ ~acked

C11_AckFailure ==
    [][/\ NackedAttempt =>
             IF retry > 0
             THEN pc' = "sendcommand" /\ retry' = retry - 1 /\ result' = None
             ELSE pc' = "idle" /\ result' = Some(FALSE) /\ raised' = None
       /\ (result' # result /\ result' = Some(TRUE)) =>
             (pc = "decide" /\ acked /\ InTrace("write") /\ exc = None)]_vars

C11_Witness ==
    /\ NackedAttempt
    /\ retry = 0
    /\ retry_count = 2
    /\ attempts = 3

(***************************************************************************)
(* C12.  Refresh and write share fate: when the status refresh raises a    *)
(* transport error (arming, status query or wait), the attempt writes no   *)
(* command frame, _disconnect still runs, and the retry decision treats it *)
(* as any failed attempt: one retry consumed, or False when none is left.  *)
(***************************************************************************)
RefreshRaised ==
    \/ InTrace("arm_raised")
    \/ InTrace("query_lookup_raised")
    \/ InTrace("query_raised")
    \/ InTrace("wait_raised")

C12_Aborted ==
    RefreshRaised =>
        /\ pc \in {"disconnect", "decide", "sendcommand"}
        /\ exc = BTLEException
        /\ ~InTrace("write")
        /\ ~InTrace("lookup_raised")
        /\ written = None
        /\ ~send_success
        /\ pc \in {"decide", "sendcommand"} => (disconnectCalls = 1 /\ device = None)

C12_SharedFate ==
    /\ []C12_Aborted
    /\ [][(pc = "decide" /\ RefreshRaised) =>
             IF retry > 0
             THEN pc' = "sendcommand" /\ retry' = retry - 1
             ELSE pc' = "idle" /\ result' = Some(FALSE) /\ raised' = None]_vars

C12_Witness ==
    /\ pc = "sendcommand"
    /\ InTrace("wait_raised")
    /\ InTrace("close")
    /\ retry = retry_count - 1
    /\ attempts = 1

(***************************************************************************)
(* C13.  Throttle boundary, as claimed: the refresh proceeds (makes its    *)
(* first transport call) if and only if now - last_status_refresh >= 3600  *)
(* seconds.                                                                *)
(***************************************************************************)
C13_BoundaryAsClaimed ==
    [][pc = "getBattery" =>
          (trace' # trace <=> now - lastBattRefresh >= BATTERY_CHECK_TIMEOUT_SECONDS)]_vars

(***************************************************************************)
(* C13, amended.  The refresh proceeds if and only if more than 3600       *)
(* seconds have elapsed since the last successful refresh; when exactly    *)
(* 3600 seconds have elapsed it is skipped.                                *)
(***************************************************************************)
C13_Boundary ==
    [][pc = "getBattery" =>
          /\ trace' # trace <=> now - lastBattRefresh > BATTERY_CHECK_TIMEOUT_SECONDS
          /\ trace' = trace => pc' = "writekey"
          /\ trace' # trace =>
                (trace' = Append(trace, "arm") \/ trace' = Append(trace, "arm_raised"))]_vars

C13_Witness ==
    /\ pc = "writekey"
    /\ trace = <<"open">>
    /\ lastBattRefresh > 0
    /\ now - lastBattRefresh = BATTERY_CHECK_TIMEOUT_SECONDS

(***************************************************************************)
(* C14.  Best-effort disconnect: _disconnect always goes on to the retry   *)
(* decision with _device None and leaves the exception in flight and       *)
(* send_success as they were, also when disconnect() raised; with _device  *)
(* None it makes no transport call.  An acknowledged write followed by a   *)
(* failing disconnect still returns True.                                  *)
(***************************************************************************)
C14_BestEffortDisconnect ==
    [][/\ pc = "disconnect" =>
             /\ pc' = "decide"
             /\ device' = None
             /\ exc' = exc
             /\ send_success' = send_success
             /\ device = None => (trace' = trace /\ released' = released)
             /\ device # None =>
                   /\ released' = released + 1
                   /\ \/ trace' = Append(trace, "close")
                      \/ trace' = Append(trace, "close_raised")
       /\ (pc = "decide" /\ InTrace("close_raised") /\ acked) =>
             (pc' = "idle" /\ result' = Some(TRUE) /\ raised' = None)
       /\ (pc = "decide" /\ InTrace("close_raised") /\ ~acked /\ exc \in {None, BTLEException}) =>
             IF retry > 0 THEN pc' = "sendcommand"
             ELSE pc' = "idle" /\ result' = Some(FALSE)]_vars

C14_Witness ==
    /\ pc = "decide"
    /\ InTrace("write")
    /\ InTrace("close_raised")
    /\ acked
    /\ send_success
    /\ device = None

(***************************************************************************)
(* C15.  Connect failure: when opening the session raises, _device stays   *)
(* None, the attempt makes no further transport call (no refresh, no       *)
(* command write, nothing to release) and the retry decision retries or    *)
(* returns False; _connect on a Device that already holds a session        *)
(* returns at once and opens no second session.  Checked with _connect     *)
(* also called on its own before the first operation (SpecDirect).         *)
(***************************************************************************)
C15_FailedConnect ==
    InTrace("open_raised") =>
        /\ trace = <<"open_raised">>
        /\ device = None
        /\ exc = BTLEException
        /\ written = None
        /\ ~send_success
        /\ pc \in {"disconnect", "decide", "sendcommand"}

C15_ConnectFailure ==
    /\ []C15_FailedConnect
    /\ [][/\ (pc = "connect" /\ device = None) =>
                \/ /\ device' = Some("Peripheral")
                   /\ trace' = Append(trace, "open")
                   /\ opened' = opened + 1
                   /\ exc' = exc
                   /\ pc' = "getBattery"
                \/ /\ device' = None
                   /\ trace' = Append(trace, "open_raised")
                   /\ opened' = opened
                   /\ exc' = BTLEException
                   /\ pc' = "disconnect"
          /\ (pc = "connect" /\ device # None) =>
                /\ device' = device
                /\ trace' = trace
                /\ opened' = opened
                /\ exc' = exc
                /\ pc' = "getBattery"
          /\ (pc = "decide" /\ InTrace("open_raised")) =>
                IF retry > 0
                THEN pc' = "sendcommand" /\ retry' = retry - 1
                ELSE pc' = "idle" /\ result' = Some(FALSE) /\ raised' = None]_vars

\* the first attempt found the session of an earlier _connect and released it,
\* the second attempt failed to connect
C15_Witness ==
    /\ pc = "decide"
    /\ trace = <<"open_raised">>
    /\ calls = 1
    /\ attempts = 2
    /\ opened = 0
    /\ released = 1
    /\ device = None

(***************************************************************************)
(* C16.  Notification timeout is not an error: a wait that reports no      *)
(* notification goes on to the command write with no exception and leaves  *)
(* _lastBattRefresh unchanged; such an attempt returns True when its write *)
(* is acknowledged; and the next refresh call after a timeout is not       *)
(* throttled: it arms the notification again.                              *)
(***************************************************************************)
C16_TimeoutNotError ==
    [][/\ (pc = "wait" /\ trace' = Append(trace, "timeout")) =>
             /\ pc' = "writekey"
             /\ exc' = None
             /\ lastBattRefresh' = lastBattRefresh
             /\ now' - lastBattRefresh' > BATTERY_CHECK_TIMEOUT_SECONDS
       /\ (pc = "getBattery" /\ timedOut) =>
             (trace' = Append(trace, "arm") \/ trace' = Append(trace, "arm_raised"))
       /\ (pc = "decide" /\ InTrace("timeout") /\ acked) =>
             (pc' = "idle" /\ result' = Some(TRUE))]_vars

C16_Witness ==
    /\ pc = "decide"
    /\ acked
    /\ trace = <<"open", "arm", "query", "timeout", "write", "close">>
    /\ calls = 1
    /\ attempts = 2
    /\ now >= (StartSeconds + 8) * TicksPerSecond

(***************************************************************************)
(* C17.  Attempt ordering: the transport calls of an attempt come in the   *)
(* order connect, arm, status query, wait, command write, disconnect, each *)
(* at most once; every call other than connect is made between a          *)
(* successful connect and the disconnect, that is with _device non-None;   *)
(* an attempt that opened a session has closed it when the retry decision  *)
(* is taken; and at most one session is open at any time.                  *)
(***************************************************************************)
EventRank(e) ==
    CASE e \in {"open", "open_raised"} -> 1
      [] e \in {"arm", "arm_raised"} -> 2
      [] e \in {"query", "query_lookup_raised", "query_convert_raised", "query_raised"} -> 3
      [] e \in {"notified", "timeout", "wait_raised"} -> 4
      [] e \in {"write", "lookup_raised", "binascii.Error"} -> 5
      [] e \in {"close", "close_raised"} -> 6

C17_AttemptOrder ==
    /\ \A i, j \in 1..Len(trace) : i < j => EventRank(trace[i]) < EventRank(trace[j])
    /\ Len(trace) > 0 => trace[1] \in {"open", "open_raised"}
    /\ Len(trace) > 1 => trace[1] = "open"
    /\ device # None <=> (InTrace("open") /\ CountInTrace({"close", "close_raised"}) = 0)
    /\ opened - released \in {0, 1}
    /\ opened - released = 1 <=> device # None
    /\ (pc = "decide" /\ InTrace("open")) => EventRank(trace[Len(trace)]) = 6
    /\ pc \in {"getBattery", "info", "wait", "writekey"} => device # None

C17_Witness ==
    /\ pc = "decide"
    /\ trace = <<"open", "arm", "query", "notified", "write", "close">>

(***************************************************************************)
(* C18.  Cached status is written only by the notification delegate:       *)
(* _battery_percent is None until the first notification is handled, and   *)
(* the battery level and the firmware version change only in the step in   *)
(* which a notification is handled, the battery level to payload byte 1.   *)
(***************************************************************************)
C18_CachedStatus ==
    /\ battery_percent = None
    /\ firmware_version = None
    /\ [](lastNotification = None => battery_percent = None)
    /\ [][(battery_percent' # battery_percent \/ firmware_version' # firmware_version) =>
             /\ pc = "wait"
             /\ trace' = Append(trace, "notified")
             /\ lastNotification' # None
             /\ battery_percent' = Some(lastNotification'[1][2])]_vars

C18_Witness ==
    /\ pc = "decide"
    /\ exc = BTLEException
    /\ InTrace("notified")
    /\ battery_percent = Some(75)
    /\ retry = 0

(***************************************************************************)
(* C19.  Every frame handed to _writekey has an even number of hexadecimal *)
(* digits and converts to bytes without error: the status-query frame and  *)
(* the command frame, for every password.                                  *)
(***************************************************************************)
C19_WholeBytes ==
    /\ pc = "info" =>
          /\ Len(INFO_PREFIX \o password_encoded[1]) % 2 = 0
          /\ ~A2bHexRaises(INFO_PREFIX \o password_encoded[1])
    /\ pc = "writekey" =>
          /\ Len(command) % 2 = 0
          /\ ~A2bHexRaises(command)
    /\ raised # BinasciiError

(***************************************************************************)
(* C20.  Bounded retries and termination: an operation makes at least 1    *)
(* and at most retry_count + 1 attempts, one at a time; retry changes      *)
(* inside an operation only at a retry, by exactly -1; and the operation   *)
(* ends: while it runs a step of the calling thread is always possible     *)
(* (each transport call returns) and every step strictly decreases the     *)
(* natural number 9 * retry + (steps left in the attempt).                 *)
(***************************************************************************)
PcRank ==
    CASE pc = "idle" -> 0
      [] pc = "decide" -> 1
      [] pc = "disconnect" -> 2
      [] pc = "writekey" -> 3
      [] pc = "wait" -> 4
      [] pc = "info" -> 5
      [] pc = "getBattery" -> 6
      [] pc = "connect" -> 7
      [] pc = "sendcommand" -> 8

Measure == 9 * retry + PcRank

C20_Bounds ==
    /\ retry \in 0..retry_count
    /\ attempts \in 0..(retry_count + 1)
    /\ Measure >= 0
    /\ pc # "idle" => ENABLED Step
    /\ pc \notin {"idle", "sendcommand"} =>
          (attempts >= 1 /\ attempts + retry = retry_count + 1)
    /\ pc = "sendcommand" => attempts + retry = retry_count
    /\ Returned => attempts >= 1

C20_BoundedRetries ==
    /\ []C20_Bounds
    /\ [][/\ pc # "idle" => Measure' < Measure
          /\ (pc # "idle" /\ pc' # "idle" /\ retry' # retry) =>
                (pc = "decide" /\ pc' = "sendcommand" /\ retry' = retry - 1)
          /\ (pc # "idle" /\ attempts' # attempts) =>
                (pc = "sendcommand" /\ attempts' = attempts + 1)
          /\ (pc = "decide" /\ pc' = "sendcommand") => retry' = retry - 1]_vars

C20_Witness ==
    /\ Returned
    /\ retry_count = 2
    /\ attempts = 3
    /\ acked
    /\ result = Some(TRUE)

TypeOK ==
    /\ device \in {None, Some("Peripheral")}
    /\ retry_count \in 0..MaxRetry
    /\ pc \in {"idle", "sendcommand", "connect", "getBattery", "info", "wait",
               "writekey", "disconnect", "decide"}
    /\ retry \in 0..MaxRetry
    /\ send_success \in BOOLEAN
    /\ result \in {None, Some(TRUE), Some(FALSE)}
    /\ attempts \in 0..(MaxRetry + 1)
====
